---- MODULE Spec2Model ----
(***************************************************************************)
(* create_context_cache (langchain_google_vertexai/utils.py): marshals a   *)
(* model reference, a chat history and optional tools / tool config into   *)
(* one caching.CachedContent.create request and returns the created        *)
(* resource's name.                                                        *)
(*                                                                         *)
(* Python values are modelled as follows.  Optional[T]: None is the empty  *)
(* tuple and a present value v is the one-element tuple <<v>>.  A str is a *)
(* tuple of string tokens, so that f-strings and concatenation are \o.  A  *)
(* dict / proto message is a record; the empty dict is the empty function. *)
(* A call that may raise yields [err |-> Optional error, val |-> value].   *)
(***************************************************************************)
EXTENDS Integers, Sequences, FiniteSets, TLC

VARIABLES args, pc, frame, calls, inflight, remote_log, responses, cached_contents, returned, raised

vars == <<args, pc, frame, calls, inflight, remote_log, responses, cached_contents, returned, raised>>

\* Number of invocations of create_context_cache that may be in progress.
NumInvocations == 2

Invocations == 1..NumInvocations

None == <<>>

Some(v) == <<v>>

Ok(v) == [err |-> None, val |-> v]

Raise(e) == [err |-> Some(e), val |-> None]

\* bool(x) of an Optional[dict]: None and the empty dict are falsy.
EmptyDict == [k \in {} |-> None]

Truthy(opt) == opt # None /\ opt[1] # EmptyDict

(***************************************************************************)
(* External collaborators.  Their code is outside utils.py; they are       *)
(* modelled from their contracts as functions whose result depends on      *)
(* every argument, so that a wrong or swapped argument is observable.      *)
(***************************************************************************)

\* (model_id, project, location) -> fully-qualified name string
_format_model_name(model, project, location) ==
    <<"projects/", project, "/locations/", location, "/publishers/google/models/", model>>

\* (model_family) -> boolean
is_gemini_advanced(model_family) == model_family = "gemini_advanced"

RECURSIVE TranslateMessages(_, _)
TranslateMessages(msgs, project) ==
    IF msgs = <<>> THEN <<>>
    ELSE <<[role |-> IF Head(msgs).role = "ai" THEN "model" ELSE "user",
            parts |-> <<Head(msgs).content>>,
            project |-> project]>>
         \o TranslateMessages(Tail(msgs), project)

\* (messages, project) -> (system_instruction, contents); raises on a
\* message it cannot translate.
_parse_chat_history_gemini(messages, project) ==
    IF \E k \in 1..Len(messages) :
          \/ messages[k].role \notin {"system", "human", "ai"}
          \/ (messages[k].role = "system" /\ k # 1)
    THEN Raise([type |-> "ValueError", origin |-> "_parse_chat_history_gemini", msg |-> <<"Unexpected message">>])
    ELSE IF messages # <<>> /\ Head(messages).role = "system"
         THEN Ok([system_instruction |-> Some([parts |-> <<Head(messages).content>>, project |-> project]),
                  contents |-> TranslateMessages(Tail(messages), project)])
         ELSE Ok([system_instruction |-> None,
                  contents |-> TranslateMessages(messages, project)])

\* (tool_config) -> normalized tool-config structure; raises on a
\* configuration it cannot normalize.
_format_tool_config(tool_config) ==
    IF "function_calling_config" \notin DOMAIN tool_config
    THEN Raise([type |-> "ValueError", origin |-> "_format_tool_config", msg |-> <<"Invalid ToolConfig">>])
    ELSE Ok([gapic |-> "ToolConfig",
             mode |-> tool_config.function_calling_config.mode,
             allowed_function_names |-> tool_config.function_calling_config.allowed_function_names])

RECURSIVE FunctionDeclarations(_)
FunctionDeclarations(tools) ==
    IF tools = <<>> THEN <<>>
    ELSE <<[declared |-> Head(tools).name]>> \o FunctionDeclarations(Tail(tools))

\* (tools) -> normalized single tool-schema structure; raises on a tool
\* definition it cannot convert.
_format_to_gapic_tool(tools) ==
    IF \E k \in 1..Len(tools) : tools[k].kind \notin {"callable", "pydantic", "BaseTool"}
    THEN Raise([type |-> "ValueError", origin |-> "_format_to_gapic_tool", msg |-> <<"Unsupported tool">>])
    ELSE Ok([gapic |-> "Tool", function_declarations |-> FunctionDeclarations(tools)])

\* Errors the remote creation endpoint may answer with.
RemoteErrors ==
    {[type |-> "ResourceExhausted", origin |-> "caching.CachedContent.create", msg |-> <<"quota">>],
     [type |-> "InvalidArgument", origin |-> "caching.CachedContent.create", msg |-> <<"invalid request">>]}

\* The resource the remote platform creates for the n-th accepted request.
CachedContent(n, request) ==
    [name |-> <<"cachedContents/", ToString(n)>>, request |-> request]

(***************************************************************************)
(* Inputs of an invocation.                                                *)
(***************************************************************************)
Models ==
    {[model_name |-> "gemini-1.5-pro", project |-> "proj-a", location |-> "us-central1", model_family |-> "gemini_advanced"],
     [model_name |-> "gemini-1.5-flash", project |-> "proj-b", location |-> "europe-west1", model_family |-> "gemini_advanced"],
     [model_name |-> "gemini-pro", project |-> "proj-a", location |-> "us-central1", model_family |-> "gemini"]}

MessageLists ==
    {<<[role |-> "system", content |-> "You are helpful"], [role |-> "human", content |-> "Hi"]>>,
     <<[role |-> "human", content |-> "Hi"], [role |-> "ai", content |-> "Hello"]>>,
     <<[role |-> "human", content |-> "Hi"], [role |-> "unknown", content |-> "?"]>>,
     <<>>}

ExpireTimes == {None, Some(1767225600)}

TimeToLives == {None, Some(1800)}

WeatherTool == [name |-> "get_weather", kind |-> "callable"]

SearchTool == [name |-> "search", kind |-> "pydantic"]

BrokenTool == [name |-> "broken", kind |-> "int"]

ToolLists == {None, Some(<<>>), Some(<<WeatherTool>>), Some(<<WeatherTool, SearchTool>>), Some(<<BrokenTool>>)}

ToolConfigs ==
    {None,
     Some(EmptyDict),
     Some([function_calling_config |-> [mode |-> "ANY", allowed_function_names |-> <<"get_weather">>]]),
     Some([mode |-> "ANY"])}

Inputs ==
    [model : Models, messages : MessageLists, expire_time : ExpireTimes,
     time_to_live : TimeToLives, tools : ToolLists, tool_config : ToolConfigs]

\* Locals of an invocation before any of them is bound.
EmptyFrame ==
    [model |-> None, messages |-> None, expire_time |-> None, time_to_live |-> None,
     tools |-> None, tool_config |-> None, model_name |-> None,
     system_instruction |-> None, contents |-> None, cached_content |-> None]

TypeOK ==
    /\ pc \in [Invocations -> {"unused", "idle", "L57", "L62", "L66", "L68", "L71", "L74", "L74_wait", "L84", "returned", "raised"}]
    /\ args \in [Invocations -> Inputs]
    /\ DOMAIN frame = Invocations
    /\ DOMAIN calls = Invocations
    /\ \A i \in Invocations : Len(returned[i]) <= 1 /\ Len(raised[i]) <= 1 /\ Len(inflight[i]) <= 1
    /\ Len(responses) <= Len(remote_log)
    /\ Len(cached_contents) <= Len(responses)

\* The collaborator fn has been invoked by invocation i.
Invoked(i, fn) == \E k \in 1..Len(calls[i]) : calls[i][k] = fn

\* Number of remote creation calls invocation i has made.
RemoteCalls(i) == Cardinality({k \in 1..Len(calls[i]) : calls[i][k] = "caching.CachedContent.create"})

\* Positions in remote_log of the remote calls made by invocation i.
RequestsBy(i) == {k \in 1..Len(remote_log) : remote_log[k].by = i}

\* Positions in responses of the answers the remote call gave invocation i.
ResponsesTo(i) == {k \in 1..Len(responses) : responses[k].to = i}

Terminated(i) == pc[i] \in {"returned", "raised"}

\* s occurs in t as a contiguous run of tokens.
Contains(t, s) == \E k \in 0..(Len(t) - Len(s)) : SubSeq(t, k + 1, k + Len(s)) = s

Supported(a) == is_gemini_advanced(a.model.model_family)

FormattedName(a) == _format_model_name(a.model.model_name, a.model.project, a.model.location)

Translators == {"_parse_chat_history_gemini", "_format_tool_config", "_format_to_gapic_tool"}

(***************************************************************************)
(* Init: one invocation about to be made, with any inputs.                 *)
(***************************************************************************)
Init ==
    /\ \E a \in Inputs : args = [i \in Invocations |-> a]
    /\ pc = [i \in Invocations |-> IF i = 1 THEN "idle" ELSE "unused"]
    /\ frame = [i \in Invocations |-> EmptyFrame]
    /\ calls = [i \in Invocations |-> <<>>]
    /\ inflight = [i \in Invocations |-> None]
    /\ remote_log = <<>>
    /\ responses = <<>>
    /\ cached_contents = <<>>
    /\ returned = [i \in Invocations |-> None]
    /\ raised = [i \in Invocations |-> None]

\* def create_context_cache(model, messages, expire_time=None,
\*     time_to_live=None, tools=None, tool_config=None): parameters are bound
\* in a fresh frame.
Call(i) ==
    /\ pc[i] = "idle"
    /\ frame' = [frame EXCEPT ![i] =
                    [EmptyFrame EXCEPT !.model = args[i].model,
                                       !.messages = args[i].messages,
                                       !.expire_time = args[i].expire_time,
                                       !.time_to_live = args[i].time_to_live,
                                       !.tools = args[i].tools,
                                       !.tool_config = args[i].tool_config]]
    /\ pc' = [pc EXCEPT ![i] = "L57"]
    /\ UNCHANGED <<args, calls, inflight, remote_log, responses, cached_contents, returned, raised>>

\* Variant: the formatted name is kept in one slot shared by all invocations
\* (a module-level variable) instead of the invocation's own local.
FormatModelName_shared(i) ==
    /\ pc[i] = "L57"
    /\ frame' = [frame EXCEPT ![1].model_name =
                    _format_model_name(frame[i].model.model_name, frame[i].model.project, frame[i].model.location)]
    /\ calls' = [calls EXCEPT ![i] = Append(@, "_format_model_name")]
    /\ pc' = [pc EXCEPT ![i] = "L62"]
    /\ UNCHANGED <<args, inflight, remote_log, responses, cached_contents, returned, raised>>

\* model_name = _format_model_name(model=model.model_name,
\*     project=model.project, location=model.location)
FormatModelName(i) ==
    /\ pc[i] = "L57"
    /\ frame' = [frame EXCEPT ![i].model_name =
                    _format_model_name(frame[i].model.model_name, frame[i].model.project, frame[i].model.location)]
    /\ calls' = [calls EXCEPT ![i] = Append(@, "_format_model_name")]
    /\ pc' = [pc EXCEPT ![i] = "L62"]
    /\ UNCHANGED <<args, inflight, remote_log, responses, cached_contents, returned, raised>>

\* error_msg = f"Model {model_name} doesn't support context catching"
UnsupportedModelError(model_name) ==
    [type |-> "ValueError", origin |-> "create_context_cache",
     msg |-> <<"Model ">> \o model_name \o <<" doesn't support context catching">>]

\* Variant: the capability test is inverted (the "not" is dropped).
CapabilityCheck_inverted(i) ==
    /\ pc[i] = "L62"
    /\ calls' = [calls EXCEPT ![i] = Append(@, "is_gemini_advanced")]
    /\ IF is_gemini_advanced(frame[i].model.model_family)
       THEN /\ raised' = [raised EXCEPT ![i] = Some(UnsupportedModelError(frame[i].model_name))]
            /\ pc' = [pc EXCEPT ![i] = "raised"]
       ELSE /\ pc' = [pc EXCEPT ![i] = "L66"]
            /\ UNCHANGED raised
    /\ UNCHANGED <<args, frame, inflight, remote_log, responses, cached_contents, returned>>

\* Variant: the documented "at most one of expire_time and ttl" is validated
\* locally, next to the capability check.
CapabilityCheck_exclusive(i) ==
    /\ pc[i] = "L62"
    /\ calls' = [calls EXCEPT ![i] = Append(@, "is_gemini_advanced")]
    /\ IF ~is_gemini_advanced(frame[i].model.model_family)
       THEN /\ raised' = [raised EXCEPT ![i] = Some(UnsupportedModelError(frame[i].model_name))]
            /\ pc' = [pc EXCEPT ![i] = "raised"]
       ELSE IF frame[i].expire_time # None /\ frame[i].time_to_live # None
            THEN /\ raised' = [raised EXCEPT ![i] =
                                  Some([type |-> "ValueError", origin |-> "create_context_cache",
                                        msg |-> <<"At most one of expire_time and ttl can be set">>])]
                 /\ pc' = [pc EXCEPT ![i] = "raised"]
            ELSE /\ pc' = [pc EXCEPT ![i] = "L66"]
                 /\ UNCHANGED raised
    /\ UNCHANGED <<args, frame, inflight, remote_log, responses, cached_contents, returned>>

\* if not is_gemini_advanced(model.model_family): raise ValueError(error_msg)
CapabilityCheck(i) ==
    /\ pc[i] = "L62"
    /\ calls' = [calls EXCEPT ![i] = Append(@, "is_gemini_advanced")]
    /\ IF ~is_gemini_advanced(frame[i].model.model_family)
       THEN /\ raised' = [raised EXCEPT ![i] = Some(UnsupportedModelError(frame[i].model_name))]
            /\ pc' = [pc EXCEPT ![i] = "raised"]
       ELSE /\ pc' = [pc EXCEPT ![i] = "L66"]
            /\ UNCHANGED raised
    /\ UNCHANGED <<args, frame, inflight, remote_log, responses, cached_contents, returned>>

\* Variant: a parser failure is caught and re-raised as a new error.
ParseChatHistory_wrapped(i) ==
    /\ pc[i] = "L66"
    /\ calls' = [calls EXCEPT ![i] = Append(@, "_parse_chat_history_gemini")]
    /\ LET r == _parse_chat_history_gemini(frame[i].messages, frame[i].model.project) IN
       IF r.err # None
       THEN /\ raised' = [raised EXCEPT ![i] =
                             Some([type |-> "RuntimeError", origin |-> "create_context_cache",
                                   msg |-> <<"Could not parse messages">>])]
            /\ pc' = [pc EXCEPT ![i] = "raised"]
            /\ UNCHANGED frame
       ELSE /\ frame' = [frame EXCEPT ![i].system_instruction = r.val.system_instruction,
                                      ![i].contents = r.val.contents]
            /\ pc' = [pc EXCEPT ![i] = "L68"]
            /\ UNCHANGED raised
    /\ UNCHANGED <<args, inflight, remote_log, responses, cached_contents, returned>>

\* system_instruction, contents = _parse_chat_history_gemini(messages, model.project)
ParseChatHistory(i) ==
    /\ pc[i] = "L66"
    /\ calls' = [calls EXCEPT ![i] = Append(@, "_parse_chat_history_gemini")]
    /\ LET r == _parse_chat_history_gemini(frame[i].messages, frame[i].model.project) IN
       IF r.err # None
       THEN /\ raised' = [raised EXCEPT ![i] = r.err]
            /\ pc' = [pc EXCEPT ![i] = "raised"]
            /\ UNCHANGED frame
       ELSE /\ frame' = [frame EXCEPT ![i].system_instruction = r.val.system_instruction,
                                      ![i].contents = r.val.contents]
            /\ pc' = [pc EXCEPT ![i] = "L68"]
            /\ UNCHANGED raised
    /\ UNCHANGED <<args, inflight, remote_log, responses, cached_contents, returned>>

\* if tool_config: tool_config = _format_tool_config(tool_config)
FormatToolConfig(i) ==
    /\ pc[i] = "L68"
    /\ IF Truthy(frame[i].tool_config)
       THEN /\ calls' = [calls EXCEPT ![i] = Append(@, "_format_tool_config")]
            /\ LET r == _format_tool_config(frame[i].tool_config[1]) IN
               IF r.err # None
               THEN /\ raised' = [raised EXCEPT ![i] = r.err]
                    /\ pc' = [pc EXCEPT ![i] = "raised"]
                    /\ UNCHANGED frame
               ELSE /\ frame' = [frame EXCEPT ![i].tool_config = Some(r.val)]
                    /\ pc' = [pc EXCEPT ![i] = "L71"]
                    /\ UNCHANGED raised
       ELSE /\ pc' = [pc EXCEPT ![i] = "L71"]
            /\ UNCHANGED <<calls, frame, raised>>
    /\ UNCHANGED <<args, inflight, remote_log, responses, cached_contents, returned>>

\* Variant: "if tools:" instead of "if tools is not None:".
FormatTools_truthy(i) ==
    /\ pc[i] = "L71"
    /\ IF frame[i].tools # None /\ frame[i].tools[1] # <<>>
       THEN /\ calls' = [calls EXCEPT ![i] = Append(@, "_format_to_gapic_tool")]
            /\ LET r == _format_to_gapic_tool(frame[i].tools[1]) IN
               IF r.err # None
               THEN /\ raised' = [raised EXCEPT ![i] = r.err]
                    /\ pc' = [pc EXCEPT ![i] = "raised"]
                    /\ UNCHANGED frame
               ELSE /\ frame' = [frame EXCEPT ![i].tools = Some(<<r.val>>)]
                    /\ pc' = [pc EXCEPT ![i] = "L74"]
                    /\ UNCHANGED raised
       ELSE /\ pc' = [pc EXCEPT ![i] = "L74"]
            /\ UNCHANGED <<calls, frame, raised>>
    /\ UNCHANGED <<args, inflight, remote_log, responses, cached_contents, returned>>

\* if tools is not None: tools = [_format_to_gapic_tool(tools)]
FormatTools(i) ==
    /\ pc[i] = "L71"
    /\ IF frame[i].tools # None
       THEN /\ calls' = [calls EXCEPT ![i] = Append(@, "_format_to_gapic_tool")]
            /\ LET r == _format_to_gapic_tool(frame[i].tools[1]) IN
               IF r.err # None
               THEN /\ raised' = [raised EXCEPT ![i] = r.err]
                    /\ pc' = [pc EXCEPT ![i] = "raised"]
                    /\ UNCHANGED frame
               ELSE /\ frame' = [frame EXCEPT ![i].tools = Some(<<r.val>>)]
                    /\ pc' = [pc EXCEPT ![i] = "L74"]
                    /\ UNCHANGED raised
       ELSE /\ pc' = [pc EXCEPT ![i] = "L74"]
            /\ UNCHANGED <<calls, frame, raised>>
    /\ UNCHANGED <<args, inflight, remote_log, responses, cached_contents, returned>>

\* Variant: the unformatted model.model_name is sent as model_name.
CreateRequest_raw_name(f) ==
    [model_name |-> <<f.model.model_name>>,
     system_instruction |-> f.system_instruction,
     contents |-> f.contents,
     ttl |-> f.time_to_live,
     expire_time |-> f.expire_time,
     tool_config |-> f.tool_config,
     tools |-> f.tools]

\* Variant: a one-hour ttl is filled in locally when neither is given.
CreateRequest_default_ttl(f) ==
    [model_name |-> f.model_name,
     system_instruction |-> f.system_instruction,
     contents |-> f.contents,
     ttl |-> IF f.time_to_live = None /\ f.expire_time = None THEN Some(3600) ELSE f.time_to_live,
     expire_time |-> f.expire_time,
     tool_config |-> f.tool_config,
     tools |-> f.tools]

\* The keyword arguments of caching.CachedContent.create(...), from the
\* locals f of the invocation.
CreateRequest(f) ==
    [model_name |-> f.model_name,
     system_instruction |-> f.system_instruction,
     contents |-> f.contents,
     ttl |-> f.time_to_live,
     expire_time |-> f.expire_time,
     tool_config |-> f.tool_config,
     tools |-> f.tools]

\* cached_content = caching.CachedContent.create(...): the call is issued
\* and the invocation blocks on the round trip.
CreateCachedContent(i) ==
    /\ pc[i] = "L74"
    /\ calls' = [calls EXCEPT ![i] = Append(@, "caching.CachedContent.create")]
    /\ inflight' = [inflight EXCEPT ![i] = Some(CreateRequest(frame[i]))]
    /\ remote_log' = Append(remote_log, [by |-> i, op |-> "create", request |-> CreateRequest(frame[i])])
    /\ pc' = [pc EXCEPT ![i] = "L74_wait"]
    /\ UNCHANGED <<args, frame, responses, cached_contents, returned, raised>>

\* The remote platform accepts the request: the resource is created and
\* the call returns it, which binds cached_content.
CreateSucceeds(i) ==
    /\ pc[i] = "L74_wait"
    /\ LET resource == CachedContent(Len(cached_contents) + 1, inflight[i][1]) IN
       /\ cached_contents' = Append(cached_contents, resource)
       /\ frame' = [frame EXCEPT ![i].cached_content = Some(resource)]
       /\ responses' = Append(responses, [to |-> i, err |-> None, val |-> Some(resource)])
    /\ inflight' = [inflight EXCEPT ![i] = None]
    /\ pc' = [pc EXCEPT ![i] = "L84"]
    /\ UNCHANGED <<args, calls, remote_log, returned, raised>>

\* Variant: a failed remote call is retried once.
CreateFails_retry(i) ==
    /\ pc[i] = "L74_wait"
    /\ inflight' = [inflight EXCEPT ![i] = None]
    /\ \E e \in RemoteErrors :
          /\ responses' = Append(responses, [to |-> i, err |-> Some(e), val |-> None])
          /\ IF RemoteCalls(i) = 1
             THEN /\ pc' = [pc EXCEPT ![i] = "L74"]
                  /\ UNCHANGED raised
             ELSE /\ pc' = [pc EXCEPT ![i] = "raised"]
                  /\ raised' = [raised EXCEPT ![i] = Some(e)]
    /\ UNCHANGED <<args, frame, calls, remote_log, cached_contents, returned>>

\* The remote call raises; nothing in create_context_cache catches it.
CreateFails(i) ==
    /\ pc[i] = "L74_wait"
    /\ \E e \in RemoteErrors :
          /\ responses' = Append(responses, [to |-> i, err |-> Some(e), val |-> None])
          /\ raised' = [raised EXCEPT ![i] = Some(e)]
    /\ inflight' = [inflight EXCEPT ![i] = None]
    /\ pc' = [pc EXCEPT ![i] = "raised"]
    /\ UNCHANGED <<args, frame, calls, remote_log, cached_contents, returned>>

\* Variant: the wrong field is returned.
Return_model_name(i) ==
    /\ pc[i] = "L84"
    /\ returned' = [returned EXCEPT ![i] = Some(frame[i].cached_content[1].request.model_name)]
    /\ pc' = [pc EXCEPT ![i] = "returned"]
    /\ UNCHANGED <<args, frame, calls, inflight, remote_log, responses, cached_contents, raised>>

\* return cached_content.name
Return(i) ==
    /\ pc[i] = "L84"
    /\ returned' = [returned EXCEPT ![i] = Some(frame[i].cached_content[1].name)]
    /\ pc' = [pc EXCEPT ![i] = "returned"]
    /\ UNCHANGED <<args, frame, calls, inflight, remote_log, responses, cached_contents, raised>>

Next ==
    \E i \in Invocations :
        \/ Call(i)
        \/ FormatModelName(i)
        \/ CapabilityCheck(i)
        \/ ParseChatHistory(i)
        \/ FormatToolConfig(i)
        \/ FormatTools(i)
        \/ CreateCachedContent(i)
        \/ CreateSucceeds(i)
        \/ CreateFails(i)
        \/ Return(i)

Spec == Init /\ [][Next]_vars

(***************************************************************************)
(* Concurrent callers: every invocation is made, from its own thread or    *)
(* task, and their steps interleave.                                       *)
(***************************************************************************)
ConcInputs ==
    {a \in Inputs :
        \/ /\ a.model.model_name = "gemini-1.5-pro"
           /\ a.messages = <<[role |-> "system", content |-> "You are helpful"], [role |-> "human", content |-> "Hi"]>>
           /\ a.expire_time # None /\ a.time_to_live = None
           /\ a.tools = Some(<<WeatherTool, SearchTool>>)
           /\ Truthy(a.tool_config) /\ "function_calling_config" \in DOMAIN a.tool_config[1]
        \/ /\ a.model.model_name = "gemini-1.5-flash"
           /\ a.messages = <<[role |-> "human", content |-> "Hi"], [role |-> "ai", content |-> "Hello"]>>
           /\ a.expire_time = None /\ a.time_to_live # None
           /\ a.tools = None
           /\ a.tool_config = Some(EmptyDict)
        \/ /\ a.model.model_name = "gemini-1.5-pro"
           /\ a.messages = <<[role |-> "human", content |-> "Hi"], [role |-> "ai", content |-> "Hello"]>>
           /\ a.expire_time # None /\ a.time_to_live # None
           /\ a.tools = Some(<<WeatherTool>>)
           /\ a.tool_config = None
        \/ /\ a.model.model_name = "gemini-pro"
           /\ a.messages = <<>>
           /\ a.expire_time = None /\ a.time_to_live = None
           /\ a.tools = None /\ a.tool_config = None
        \/ /\ a.model.model_name = "gemini-1.5-flash"
           /\ a.messages = <<[role |-> "human", content |-> "Hi"], [role |-> "unknown", content |-> "?"]>>
           /\ a.expire_time = None /\ a.time_to_live = None
           /\ a.tools = None /\ a.tool_config = None
        \/ /\ a.model.model_name = "gemini-1.5-pro"
           /\ a.messages = <<>>
           /\ a.expire_time # None /\ a.time_to_live # None
           /\ a.tools = Some(<<BrokenTool>>)
           /\ Truthy(a.tool_config) /\ "function_calling_config" \in DOMAIN a.tool_config[1]
        \/ /\ a.model.model_name = "gemini-1.5-flash"
           /\ a.messages = <<>>
           /\ a.expire_time = None /\ a.time_to_live = None
           /\ a.tools = Some(<<>>)
           /\ Truthy(a.tool_config) /\ "function_calling_config" \notin DOMAIN a.tool_config[1]}

InitConc ==
    /\ args \in [Invocations -> ConcInputs]
    /\ pc = [i \in Invocations |-> "idle"]
    /\ frame = [i \in Invocations |-> EmptyFrame]
    /\ calls = [i \in Invocations |-> <<>>]
    /\ inflight = [i \in Invocations |-> None]
    /\ remote_log = <<>>
    /\ responses = <<>>
    /\ cached_contents = <<>>
    /\ returned = [i \in Invocations |-> None]
    /\ raised = [i \in Invocations |-> None]

SpecConc == InitConc /\ [][Next]_vars


(***************************************************************************)
(* Properties.                                                             *)
(***************************************************************************)

\* C1: an invocation on a model whose capability check is false, whatever
\* its other inputs, never gets past the check, makes no remote creation
\* call, and ends raising the ValueError that create_context_cache
\* originates, whose message contains the formatted model name.
C1_UnsupportedModelRaises ==
    \A i \in Invocations :
        ~Supported(args[i]) =>
            /\ pc[i] \in {"unused", "idle", "L57", "L62", "raised"}
            /\ RemoteCalls(i) = 0
            /\ RequestsBy(i) = {}
            /\ returned[i] = None
            /\ pc[i] = "raised" =>
                  /\ raised[i] # None
                  /\ raised[i][1].type = "ValueError"
                  /\ raised[i][1].origin = "create_context_cache"
                  /\ Contains(raised[i][1].msg, FormattedName(args[i]))

C1_Witness ==
    \E i \in Invocations :
        /\ pc[i] = "raised"
        /\ ~Supported(args[i])
        /\ args[i].tools # None /\ args[i].tool_config # None
        /\ args[i].expire_time # None /\ args[i].time_to_live # None

\* C2: an invocation makes at most one remote creation call, and only after
\* its capability check has been made and has passed; an invocation that
\* has ended, passed the check and had no translator raise made exactly
\* one; a failed remote call leaves the count at one.
C2_OneRemoteCall ==
    \A i \in Invocations :
        /\ RemoteCalls(i) <= 1
        /\ Cardinality(RequestsBy(i)) = RemoteCalls(i)
        /\ RemoteCalls(i) = 1 =>
              /\ Supported(args[i])
              /\ \E k, m \in 1..Len(calls[i]) :
                    /\ k < m
                    /\ calls[i][k] = "is_gemini_advanced"
                    /\ calls[i][m] = "caching.CachedContent.create"
        /\ (Terminated(i) /\ Supported(args[i])
              /\ (raised[i] = None \/ raised[i][1].origin \notin Translators))
              => RemoteCalls(i) = 1
        /\ (\E k \in ResponsesTo(i) : responses[k].err # None) =>
              (RemoteCalls(i) = 1 /\ Cardinality(ResponsesTo(i)) = 1)

C2_Witness ==
    \E i \in Invocations :
        /\ pc[i] = "raised"
        /\ raised[i][1].origin = "caching.CachedContent.create"
        /\ RemoteCalls(i) = 1

\* C3: every remote creation request carries the name formatter's output
\* for the caller's model (name, project, location) as model_name, and the
\* two components of the history parser's result for (messages,
\* model.project) as system_instruction and contents.
C3_RequestNameAndHistory ==
    \A k \in 1..Len(remote_log) :
        LET a == args[remote_log[k].by]
            r == _parse_chat_history_gemini(a.messages, a.model.project)
        IN /\ remote_log[k].request.model_name = FormattedName(a)
           /\ r.err = None
           /\ remote_log[k].request.system_instruction = r.val.system_instruction
           /\ remote_log[k].request.contents = r.val.contents

C3_Witness ==
    \E k \in 1..Len(remote_log) :
        /\ remote_log[k].request.system_instruction # None
        /\ Len(remote_log[k].request.contents) > 0
        /\ args[remote_log[k].by].model.project = "proj-b"

\* C4: in every remote creation request, a tool_config the caller supplied
\* (not None, the empty configuration included) has been passed through the
\* tool-config formatter and the request carries the formatter's output; an
\* absent tool_config leaves the formatter uninvoked and the field None.
C4_ToolConfigFormatted ==
    \A k \in 1..Len(remote_log) :
        LET i == remote_log[k].by
            a == args[i]
        IN IF a.tool_config # None
           THEN /\ Invoked(i, "_format_tool_config")
                /\ _format_tool_config(a.tool_config[1]).err = None
                /\ remote_log[k].request.tool_config = Some(_format_tool_config(a.tool_config[1]).val)
           ELSE /\ ~Invoked(i, "_format_tool_config")
                /\ remote_log[k].request.tool_config = None

\* C5: in every remote creation request the tools field is None when the
\* caller omitted tools, and otherwise a collection of exactly one element,
\* the tool formatter's output for the whole supplied collection.
C5_ToolsSingleElement ==
    \A k \in 1..Len(remote_log) :
        LET a == args[remote_log[k].by]
            t == remote_log[k].request.tools
        IN IF a.tools = None
           THEN t = None
           ELSE /\ t # None
                /\ Len(t[1]) = 1
                /\ _format_to_gapic_tool(a.tools[1]).err = None
                /\ t[1][1] = _format_to_gapic_tool(a.tools[1]).val

C5_Witness ==
    /\ \E k \in 1..Len(remote_log) : args[remote_log[k].by].tools = Some(<<>>)
    /\ \E i \in Invocations : pc[i] = "returned"

\* C6: the request's ttl and expire_time are not defaulted: both None when
\* the caller gave neither; ttl the given duration and expire_time None
\* when only time_to_live was given; and symmetrically.
C6_NoLocalDefault ==
    \A k \in 1..Len(remote_log) :
        LET a == args[remote_log[k].by]
            q == remote_log[k].request
        IN /\ (a.time_to_live = None /\ a.expire_time = None) => (q.ttl = None /\ q.expire_time = None)
           /\ (a.time_to_live # None /\ a.expire_time = None) => (q.ttl = a.time_to_live /\ q.expire_time = None)
           /\ (a.time_to_live = None /\ a.expire_time # None) => (q.ttl = None /\ q.expire_time = a.expire_time)

C6_Witness ==
    \E k \in 1..Len(remote_log) :
        /\ args[remote_log[k].by].time_to_live = None
        /\ args[remote_log[k].by].expire_time = None

\* C7: with both expire_time and time_to_live supplied on a supported
\* model, create_context_cache raises no error of its own, an invocation
\* that ended without a translator raising made its one remote call, and
\* that request carries both values unchanged.
C7_BothExpiryValuesPassed ==
    \A i \in Invocations :
        (Supported(args[i]) /\ args[i].expire_time # None /\ args[i].time_to_live # None) =>
            /\ raised[i] # None => raised[i][1].origin # "create_context_cache"
            /\ (Terminated(i) /\ (raised[i] = None \/ raised[i][1].origin \notin Translators))
                  => Cardinality(RequestsBy(i)) = 1
            /\ \A k \in RequestsBy(i) :
                  /\ remote_log[k].request.ttl = args[i].time_to_live
                  /\ remote_log[k].request.expire_time = args[i].expire_time

C7_Witness ==
    \E i \in Invocations :
        /\ pc[i] = "returned"
        /\ args[i].expire_time # None /\ args[i].time_to_live # None

\* C8: an error raised by the history parser, the tool-config formatter or
\* the tool formatter ends the invocation with that same error and no
\* remote call; an error answered by the remote call ends it with that same
\* error; and an error with origin create_context_cache is raised only for
\* an unsupported model.
C8_ErrorsPropagateUnchanged ==
    \A i \in Invocations :
        LET a == args[i]
            p == _parse_chat_history_gemini(a.messages, a.model.project)
        IN /\ (Invoked(i, "_parse_chat_history_gemini") /\ p.err # None) =>
                 (pc[i] = "raised" /\ raised[i] = p.err /\ RemoteCalls(i) = 0)
           /\ (Invoked(i, "_format_tool_config") /\ _format_tool_config(a.tool_config[1]).err # None) =>
                 (pc[i] = "raised" /\ raised[i] = _format_tool_config(a.tool_config[1]).err /\ RemoteCalls(i) = 0)
           /\ (Invoked(i, "_format_to_gapic_tool") /\ _format_to_gapic_tool(a.tools[1]).err # None) =>
                 (pc[i] = "raised" /\ raised[i] = _format_to_gapic_tool(a.tools[1]).err /\ RemoteCalls(i) = 0)
           /\ \A k \in ResponsesTo(i) :
                 responses[k].err # None => (pc[i] = "raised" /\ raised[i] = responses[k].err)
           /\ (raised[i] # None /\ raised[i][1].origin = "create_context_cache") =>
                 (~Supported(a) /\ raised[i] = Some(UnsupportedModelError(FormattedName(a))))
           /\ raised[i] # None => pc[i] = "raised"

C8_Witness ==
    \E i \in Invocations :
        /\ pc[i] = "raised"
        /\ raised[i][1].origin = "_parse_chat_history_gemini"

\* C9: an invocation has returned an identifier exactly when its remote
\* call succeeded and it has run to its end; the identifier is the name of
\* the resource that call created; an invocation that raised returned
\* nothing; and the only remote operation ever requested is a creation.
C9_NoPartialApplication ==
    /\ \A k \in 1..Len(remote_log) : remote_log[k].op = "create"
    /\ \A i \in Invocations :
          /\ returned[i] # None =>
                /\ pc[i] = "returned"
                /\ \E k \in ResponsesTo(i) :
                      /\ responses[k].err = None
                      /\ returned[i] = Some(responses[k].val[1].name)
                      /\ \E n \in 1..Len(cached_contents) : cached_contents[n] = responses[k].val[1]
          /\ pc[i] = "returned" => returned[i] # None
          /\ (Terminated(i) /\ \E k \in ResponsesTo(i) : responses[k].err = None) => returned[i] # None
          /\ (raised[i] # None \/ pc[i] = "raised") =>
                /\ returned[i] = None
                /\ \A k \in ResponsesTo(i) : responses[k].err # None
                /\ Cardinality(RequestsBy(i)) <= 1

C9_Witness ==
    \E i \in Invocations : pc[i] = "returned" /\ returned[i] = Some(<<"cachedContents/", "1">>)

\* The request create_context_cache builds from the inputs a alone.
OwnRequest(a) ==
    [model_name |-> FormattedName(a),
     system_instruction |-> _parse_chat_history_gemini(a.messages, a.model.project).val.system_instruction,
     contents |-> _parse_chat_history_gemini(a.messages, a.model.project).val.contents,
     ttl |-> a.time_to_live,
     expire_time |-> a.expire_time,
     tool_config |-> IF Truthy(a.tool_config) THEN Some(_format_tool_config(a.tool_config[1]).val) ELSE a.tool_config,
     tools |-> IF a.tools # None THEN Some(<<_format_to_gapic_tool(a.tools[1]).val>>) ELSE None]

\* C10: under any interleaving of concurrent invocations, the request of
\* each remote call is the one determined by the inputs of the invocation
\* that made it, and each invocation returns the name of the resource
\* created from its own request, a name no other invocation returns.
C10_Reentrant ==
    /\ \A k \in 1..Len(remote_log) : remote_log[k].request = OwnRequest(args[remote_log[k].by])
    /\ \A i \in Invocations :
          returned[i] # None =>
              /\ \E n \in 1..Len(cached_contents) :
                    /\ cached_contents[n].name = returned[i][1]
                    /\ cached_contents[n].request = OwnRequest(args[i])
                    /\ \E k \in ResponsesTo(i) : responses[k].val = Some(cached_contents[n])
              /\ \A j \in Invocations : (j # i /\ returned[j] # None) => returned[j] # returned[i]

C10_Witness ==
    \E i, j \in Invocations :
        /\ i # j
        /\ pc[i] = "returned" /\ pc[j] = "returned"
        /\ OwnRequest(args[i]) # OwnRequest(args[j])
        /\ \E k, m \in 1..Len(remote_log) :
              k < m /\ remote_log[k].by = i /\ remote_log[m].by = j
        /\ \E k, m \in 1..Len(responses) :
              k < m /\ responses[k].to = j /\ responses[m].to = i

====
